---- MODULE Spec2Model ----
(***************************************************************************)
(* A model of the redirect-and-analytics core of logmi-app: the short-code *)
(* redirect (app_tinyurl.views.redirect_view), the link-ID redirect        *)
(* (app_linktree.views.link_redirect), the click recorder they share       *)
(* (app_tinyurl.utils) and the short-code allocation of UrlSerializer.     *)
(*                                                                         *)
(* The persistent store is the only state the workers share.  A handler is *)
(* split exactly where it talks to the store: one step for the lookup      *)
(* (with the local classification work that follows it), one step for the  *)
(* click-event insert and the response.                                    *)
(***************************************************************************)
EXTENDS Integers, Sequences, FiniteSets, Bags, TLC

VARIABLES
    urls,       \* table app_tinyurl.Url: a set of rows
    urlStats,   \* table app_tinyurl.UrlStat: rows in insertion (created_at) order
    links,      \* table app_linktree.Link: a set of rows
    linkStats,  \* table app_linktree.LinkStat: rows in insertion order
    nextId,     \* the next fresh primary key (uuid4 never repeats)
    arrived,    \* requests received so far
    inflight,   \* the redirect handlers between lookup and insert: a bag of their locals
    served,     \* per stored link, the redirect responses sent for it
    last,       \* the latest step: the request it served and what it answered
    cr,         \* the UrlSerializer and stats-view calls under way: each one's position and locals
    now         \* timezone.now(), in ticks

vars == <<urls, urlStats, links, linkStats, nextId, arrived, inflight, served, last, cr, now>>

----------------------------------------------------------------------------
(* Bounds of the model *)

NumReq == 2        \* redirect requests, all of which may be in flight together
MaxRows == 1       \* Url and Link rows ever created (primary keys 1..MaxRows)
NumCreators == 2   \* UrlSerializer calls, all of which may be under way together

Ids == 1..MaxRows

None == "None"

----------------------------------------------------------------------------
(* Strings whose case matters are sequences of characters *)

Uppers == <<"A","B","C","D","E","F","G","H","I","J","K","L","M",
            "N","O","P","Q","R","S","T","U","V","W","X","Y","Z">>
Lowers == <<"a","b","c","d","e","f","g","h","i","j","k","l","m",
            "n","o","p","q","r","s","t","u","v","w","x","y","z">>

LowerChar(c) ==
    IF \E i \in DOMAIN Uppers : Uppers[i] = c
    THEN Lowers[CHOOSE i \in DOMAIN Uppers : Uppers[i] = c]
    ELSE c

\* str.lower()
Lower(s) == [i \in DOMAIN s |-> LowerChar(s[i])]

\* settings.TINYURL_RESERVED_PATHS, with the default of the getattr
ReservedPaths ==
    { <<"a","d","m","i","n">>, <<"a","p","i">>, <<"a","p","p">>,
      <<"s","t","a","t","i","c">>, <<"m","e","d","i","a">> }

\* settings.REDIRECT_URL, the context of the 404 page
REDIRECT_URL == "settings.REDIRECT_URL"

----------------------------------------------------------------------------
(* HTTP responses *)

\* render(request, '404.html', {'redirect_url': settings.REDIRECT_URL}, status=404)
NotFoundPage ==
    [status |-> 404, template |-> "404.html", context |-> REDIRECT_URL, location |-> None]

\* HttpResponseRedirect(target)
HttpResponseRedirect(target) ==
    [status |-> 302, template |-> None, context |-> None, location |-> target]

\* an exception no handler catches: Django answers with its server-error page
ServerError ==
    [status |-> 500, template |-> "500.html", context |-> None, location |-> None]

\* the handler has not returned
NoResponse ==
    [status |-> 0, template |-> None, context |-> None, location |-> None]

----------------------------------------------------------------------------
(* app_tinyurl.utils: the click recorder's classification helpers *)

Str_true == <<"t","r","u","e">>

\* a comparison that does not lower the value first
ViaQrcode_CaseSensitive(qrcode) == qrcode = Str_true

\* request.GET.get('qrcode', '').lower() == 'true'   (an absent parameter is '')
ViaQrcode(qrcode) == Lower(qrcode) = Str_true

\* get_client_ip: the first entry of X-Forwarded-For when the header is set,
\* else REMOTE_ADDR.  xff is the header split at ',' and stripped; <<>> when unset.
get_client_ip(xff, remote_addr) ==
    IF xff # <<>> THEN xff[1] ELSE remote_addr

\* What user_agents.parse does with one string: it raises, or it returns the
\* three signals get_device_type reads.
ParseOutcomes ==
    [raises : BOOLEAN, is_mobile : BOOLEAN, is_tablet : BOOLEAN, is_pc : BOOLEAN]

\* UrlStat.DEVICE_TYPES / LinkStat.DEVICE_TYPES
DeviceClasses == { "mobile", "tablet", "desktop", "unknown" }

\* a classifier that tests the desktop signal first
get_device_type_DesktopFirst(user_agent_string, parsed) ==
    IF user_agent_string = "" THEN "unknown"
    ELSE IF parsed.raises THEN "unknown"
    ELSE IF parsed.is_pc THEN "desktop"
    ELSE IF parsed.is_mobile THEN "mobile"
    ELSE IF parsed.is_tablet THEN "tablet"
    ELSE "unknown"

\* get_device_type
get_device_type(user_agent_string, parsed) ==
    IF user_agent_string = "" THEN "unknown"
    ELSE IF parsed.raises THEN "unknown"
    ELSE IF parsed.is_mobile THEN "mobile"
    ELSE IF parsed.is_tablet THEN "tablet"
    ELSE IF parsed.is_pc THEN "desktop"
    ELSE "unknown"

\* What the geo-IP service does with one lookup: requests.get raises (timeout,
\* connection error), or answers with a status code and a body that is JSON or not.
GeoReply(exc, status_code, json_ok, status, city, country) ==
    [exc |-> exc, status_code |-> status_code, json_ok |-> json_ok,
     status |-> status, city |-> city, country |-> country]

GeoTimeout   == GeoReply("Timeout", 0, FALSE, None, None, None)
GeoConnError == GeoReply("ConnectionError", 0, FALSE, None, None, None)
GeoHttp500   == GeoReply(None, 500, TRUE, "success", "Paris", "France")
GeoMalformed == GeoReply(None, 200, FALSE, None, None, None)
GeoFail      == GeoReply(None, 200, TRUE, "fail", None, None)
GeoSuccess   == GeoReply(None, 200, TRUE, "success", "Paris", "France")

GeoFailures == {GeoTimeout, GeoConnError, GeoHttp500, GeoMalformed, GeoFail}
GeoOutcomes == GeoFailures \cup {GeoSuccess}

NoLocation == [city |-> None, country |-> None]

\* the call did not return: an exception left the function
Raised == [city |-> "Exception", country |-> "Exception"]

\* the guard of get_location_from_ip that skips the lookup
SkipsLookup(ip) == ip \in {None, "", "127.0.0.1", "localhost", "::1"}

\* the function without its try/except: what the request or the JSON decoder
\* raises reaches the caller
get_location_from_ip_NoCatch(ip, geo) ==
    IF SkipsLookup(ip) THEN NoLocation
    ELSE IF geo.exc # None THEN Raised
    ELSE IF geo.status_code # 200 THEN NoLocation
    ELSE IF ~geo.json_ok THEN Raised
    ELSE IF geo.status = "success"
         THEN [city |-> geo.city, country |-> geo.country]
         ELSE NoLocation

\* get_location_from_ip: geo is what the service does if it is asked
get_location_from_ip(ip, geo) ==
    IF SkipsLookup(ip) THEN NoLocation
    ELSE IF geo.exc # None THEN NoLocation                  \* except Exception: pass
    ELSE IF geo.status_code # 200 THEN NoLocation
    ELSE IF ~geo.json_ok THEN NoLocation                    \* response.json() raises
    ELSE IF geo.status = "success"
         THEN [city |-> geo.city, country |-> geo.country]
         ELSE NoLocation

\* outbound lookups one call of get_location_from_ip issues
GeoCalls(ip) == IF SkipsLookup(ip) THEN 0 ELSE 1

----------------------------------------------------------------------------
(* Inbound redirect requests *)

Context(qrcode, ua, parsed, xff, remote_addr, geo) ==
    [qrcode |-> qrcode, ua |-> ua, parsed |-> parsed, xff |-> xff,
     remote_addr |-> remote_addr, geo |-> geo]

Parsed(raises, m, t, p) ==
    [raises |-> raises, is_mobile |-> m, is_tablet |-> t, is_pc |-> p]

NoContext == Context(<<>>, "", Parsed(FALSE, FALSE, FALSE, FALSE), <<>>, None, GeoTimeout)

\* The request contexts the tracking specification draws from: a local visitor
\* with no user agent; a phone behind a proxy that scanned a QR code, whose
\* lookup succeeds; a visitor with an unparseable agent whose lookup fails in
\* every way the service can fail; a visitor from a private network, whom the
\* service cannot place.
Contexts ==
    { Context(q, "", Parsed(FALSE, FALSE, FALSE, FALSE), <<>>, "127.0.0.1", GeoSuccess)
        : q \in { <<>>, <<"1">> } }
    \cup
    { Context(q, "iPhone", Parsed(FALSE, TRUE, FALSE, p), <<"8.8.8.8", "10.0.0.1">>,
              "10.0.0.1", GeoSuccess)
        : q \in { Str_true, <<"T","R","U","E">>, <<"T","r","u","e">> }, p \in BOOLEAN }
    \cup
    { Context(<<"y","e","s">>, "junk", Parsed(r, FALSE, FALSE, FALSE), <<>>, "8.8.8.8", g)
        : r \in BOOLEAN, g \in GeoFailures }
    \cup
    { Context(<<>>, "", Parsed(FALSE, FALSE, FALSE, FALSE), <<>>, "10.0.0.1", GeoFail) }

\* The request contexts of the device specification: local visitors with some
\* agent, for which the parser raises or sets any of its signals, and with no
\* agent.
DeviceContexts ==
    { Context(<<>>, "agent", p, <<>>, "127.0.0.1", GeoSuccess)
        : p \in { q \in ParseOutcomes : q.raises => ~(q.is_mobile \/ q.is_tablet \/ q.is_pc) } }
    \cup
    { Context(<<>>, "", p, <<>>, "127.0.0.1", GeoSuccess)
        : p \in { Parsed(TRUE, FALSE, FALSE, FALSE), Parsed(FALSE, TRUE, TRUE, TRUE) } }

----------------------------------------------------------------------------
(* The store: rows and constraints of app_tinyurl.models, app_linktree.models *)

Str_go  == <<"g","o">>
Str_API == <<"A","P","I">>

\* the short codes the redirect specification stores and requests
ShortCodes == { Str_go, Str_API }

\* destinations
DestA == "https://a.example/"
DestB == "https://b.example/"
Dests == { DestA, DestB }

\* the Url forms the writers of the redirect specification submit: the ordinary
\* code with either destination, active or not, and a reserved code, active
UrlForms ==
    { <<Str_go, d, a>> : d \in Dests, a \in BOOLEAN } \cup { <<Str_API, DestA, TRUE>> }

\* Url(id, short_code, long_url, is_active)
UrlRow(id, short_code, long_url, is_active) ==
    [id |-> id, short_code |-> short_code, long_url |-> long_url, is_active |-> is_active]

\* the users of the link-ID variant (auth.User)
Users == { "alice", "bob" }

\* the user whose requests the specifications with one user serve
Owner == "alice"

\* Link(id, user, url, is_active)
LinkRow(id, user, url, is_active) ==
    [id |-> id, user |-> user, url |-> url, is_active |-> is_active]

\* UrlStat / LinkStat: ref is the foreign key (url, resp. link)
StatRow(ref, created_at, via_qrcode, device_type, location, ip_address, user_agent) ==
    [ref |-> ref, created_at |-> created_at,
     via_qrcode |-> via_qrcode, device_type |-> device_type,
     city |-> location.city, country |-> location.country,
     ip_address |-> ip_address, user_agent |-> user_agent]

\* a column declared without unique=True: nothing is ever refused
UniqueViolation_NoConstraint(table, row) == FALSE

\* short_code = CharField(unique=True): another row holds the code
UniqueViolation(table, row) ==
    \E u \in table : u.id # row.id /\ u.short_code = row.short_code

\* a reference column without a foreign-key constraint: any value is taken
ForeignKeyViolation_NoConstraint(table, ref) == FALSE

\* ForeignKey(..., on_delete=CASCADE): the referenced row must exist at insert
ForeignKeyViolation(table, ref) ==
    ~ \E u \in table : u.id = ref

\* an insert that is retried after it went through: the row is stored twice
StatInsert_Twice(stats, row) == Append(Append(stats, row), row)

\* a write that replaces the latest row instead of adding one: of two
\* concurrent requests, one's click event is lost
StatInsert_Overwrite(stats, row) ==
    IF stats = <<>> THEN <<row>> ELSE [stats EXCEPT ![Len(stats)] = row]

\* objects.create(...) of a stat row: an append-only insert
StatInsert(stats, row) == Append(stats, row)

\* on_delete=models.CASCADE: deleting a link deletes its click events
CascadeDelete(stats, ref) == SelectSeq(stats, LAMBDA s : s.ref # ref)

\* the click events of one link
StatsOf(stats, ref) == SelectSeq(stats, LAMBDA s : s.ref = ref)

----------------------------------------------------------------------------
(* Redirect requests: handler state *)

\* The locals of a handler that has looked its link up and classified the
\* request, and is about to insert the click event.
\* What a handler has done by the time its tracking locals are set, in the
\* order of its statements: redirect_view tests the reserved paths (186-191),
\* looks the Url up (193-197), classifies the device (203), locates the
\* address (204); link_redirect has no reserved paths.
LookupTrace(route) ==
    IF route = "short"
    THEN <<"reserved_check", "lookup", "classify_device", "geolocate">>
    ELSE <<"lookup", "classify_device", "geolocate">>

\* a handler that answers before it stores the click event
RecordTrace_RespondFirst == <<"respond", "write">>

\* the rest of the handler: the click-event insert, then the redirect response
RecordTrace == <<"write", "respond">>

\* the handler's locals once it has gone through the statements ops
Did(e, ops) == [e EXCEPT !.trace = @ \o ops]

Tracking(route, obj, ctx) ==
    LET ip == get_client_ip(ctx.xff, ctx.remote_addr) IN
    [route |-> route, obj |-> obj, trace |-> LookupTrace(route),
     via_qrcode |-> ViaQrcode(ctx.qrcode),
     user_agent |-> ctx.ua,
     ip_address |-> ip,
     device_type |-> get_device_type(ctx.ua, ctx.parsed),
     location |-> get_location_from_ip(ip, ctx.geo)]

NoEntry == [route |-> None]

\* the four tables
Tables(u, us, l, ls) == [urls |-> u, urlStats |-> us, links |-> l, linkStats |-> ls]

NoTables == Tables({}, <<>>, {}, <<>>)

\* The record of one handler step.  ident and ctx are the request as received
\* (lookup steps); entry the handler's locals after a lookup that found its
\* link, or before the insert; resp the response if the step returned one;
\* lookups, writes and geocalls count the store lookups, click-event inserts
\* and geo-IP calls of the request up to and including this step; before is
\* the store as the step found it.
Step(op, route, ident, ctx, entry, resp, lookups, writes, geocalls) ==
    [op |-> op, route |-> route, ident |-> ident, ctx |-> ctx, entry |-> entry,
     resp |-> resp, lookups |-> lookups, writes |-> writes, geocalls |-> geocalls,
     before |-> Tables(urls, urlStats, links, linkStats)]

\* a step of a writer of the link tables: no request is served
StoreStep ==
    [Step("store", None, None, NoContext, NoEntry, NoResponse, 0, 0, 0)
        EXCEPT !.before = NoTables]

\* the click-event row a handler inserts from its locals
StatOf(e) ==
    StatRow(e.obj.id, now, e.via_qrcode, e.device_type, e.location, e.ip_address,
            e.user_agent)                        \* created_at: auto_now_add

----------------------------------------------------------------------------
(* app_tinyurl.views.redirect_view *)

\* a reserved-path check that compares without lower-casing
IsReservedPath_CaseSensitive(short_code) ==
    short_code \in ReservedPaths

\* short_code.lower() in [p.lower() for p in reserved_paths]
IsReservedPath(short_code) ==
    Lower(short_code) \in { Lower(p) : p \in ReservedPaths }

\* a lookup that forgets the is_active filter
UrlGet_AnyRow(short_code) ==
    { u \in urls : u.short_code = short_code }

\* Url.objects.get(short_code=short_code, is_active=True): the rows that match
UrlGet(short_code) ==
    { u \in urls : u.short_code = short_code /\ u.is_active }

\* a redirect to the site's landing page instead of the link's destination
UrlRedirect_Home(url) == HttpResponseRedirect(REDIRECT_URL)

\* HttpResponseRedirect(url.long_url)
UrlRedirect(url) == HttpResponseRedirect(url.long_url)

\* Lines 186-204: the reserved-path check, the lookup, and the classification
\* of the request (no store access after the lookup).
RedirectViewLookup(short_code, ctx) ==
    /\ arrived < NumReq
    /\ arrived' = arrived + 1
    /\ UNCHANGED <<urls, urlStats, links, linkStats, nextId, served, cr, now>>
    /\ IF IsReservedPath(short_code)
       THEN /\ inflight' = inflight
            /\ last' = Step("lookup", "short", short_code, ctx, NoEntry, NotFoundPage, 0, 0, 0)
       ELSE LET found == UrlGet(short_code) IN
            IF found = {}                        \* Url.DoesNotExist
            THEN /\ inflight' = inflight
                 /\ last' = Step("lookup", "short", short_code, ctx, NoEntry,
                                 NotFoundPage, 1, 0, 0)
            ELSE IF Cardinality(found) > 1       \* MultipleObjectsReturned is not caught
            THEN /\ inflight' = inflight
                 /\ last' = Step("lookup", "short", short_code, ctx, NoEntry,
                                 ServerError, 1, 0, 0)
            ELSE LET e == Tracking("short", CHOOSE u \in found : TRUE, ctx) IN
                 IF e.location = Raised          \* an exception in the tracking calls
                 THEN /\ inflight' = inflight
                      /\ last' = Step("lookup", "short", short_code, ctx, e, ServerError,
                                      1, 0, GeoCalls(e.ip_address))
                 ELSE /\ inflight' = inflight (+) SetToBag({e})
                      /\ last' = Step("lookup", "short", short_code, ctx, e, NoResponse,
                                      1, 0, GeoCalls(e.ip_address))

\* Lines 206-217: UrlStat.objects.create(...) and the redirect response.  The
\* insert raises when the store fails or when the Url row is gone (foreign
\* key); nothing catches it.
RedirectViewRecord(e, store_fails) ==
    /\ BagIn(e, inflight)
    /\ e.route = "short"
    /\ inflight' = inflight (-) SetToBag({e})
    /\ UNCHANGED <<urls, links, linkStats, nextId, arrived, cr, now>>
    /\ IF store_fails \/ ForeignKeyViolation(urls, e.obj.id)
       THEN /\ urlStats' = urlStats
            /\ served' = served
            /\ last' = Step("record", "short", e.obj.short_code, NoContext,
                            Did(e, <<RecordTrace[1]>>), ServerError, 1, 0, GeoCalls(e.ip_address))
       ELSE /\ urlStats' = StatInsert(urlStats, StatOf(e))
            /\ served' = [served EXCEPT ![e.obj.id] = @ + 1]
            /\ last' = Step("record", "short", e.obj.short_code, NoContext,
                            Did(e, RecordTrace), UrlRedirect(e.obj), 1, 1, GeoCalls(e.ip_address))

----------------------------------------------------------------------------
(* app_linktree.views.link_redirect *)

\* Link.objects.get(id=link_id, is_active=True)
LinkGet(link_id) ==
    { l \in links : l.id = link_id /\ l.is_active }

\* HttpResponseRedirect(link.url)
LinkRedirect(link) == HttpResponseRedirect(link.url)

\* Lines 294-305: the lookup (any exception is a 404) and the classification
LinkRedirectLookup(link_id, ctx) ==
    /\ arrived < NumReq
    /\ arrived' = arrived + 1
    /\ UNCHANGED <<urls, urlStats, links, linkStats, nextId, served, cr, now>>
    /\ LET found == LinkGet(link_id) IN
       IF Cardinality(found) # 1                \* except (Link.DoesNotExist, Exception)
       THEN /\ inflight' = inflight
            /\ last' = Step("lookup", "link", link_id, ctx, NoEntry, NotFoundPage, 1, 0, 0)
       ELSE LET e == Tracking("link", CHOOSE l \in found : TRUE, ctx) IN
            IF e.location = Raised              \* lines 300-305 are outside the try
            THEN /\ inflight' = inflight
                 /\ last' = Step("lookup", "link", link_id, ctx, e, ServerError, 1, 0,
                                 GeoCalls(e.ip_address))
            ELSE /\ inflight' = inflight (+) SetToBag({e})
                 /\ last' = Step("lookup", "link", link_id, ctx, e, NoResponse, 1, 0,
                                 GeoCalls(e.ip_address))

\* Lines 307-318: LinkStat.objects.create(...) and the redirect response
LinkRedirectRecord(e, store_fails) ==
    /\ BagIn(e, inflight)
    /\ e.route = "link"
    /\ inflight' = inflight (-) SetToBag({e})
    /\ UNCHANGED <<urls, urlStats, links, nextId, arrived, cr, now>>
    /\ IF store_fails \/ ForeignKeyViolation(links, e.obj.id)
       THEN /\ linkStats' = linkStats
            /\ served' = served
            /\ last' = Step("record", "link", e.obj.id, NoContext,
                            Did(e, <<RecordTrace[1]>>), ServerError, 1, 0, GeoCalls(e.ip_address))
       ELSE /\ linkStats' = StatInsert(linkStats, StatOf(e))
            /\ served' = [served EXCEPT ![e.obj.id] = @ + 1]
            /\ last' = Step("record", "link", e.obj.id, NoContext,
                            Did(e, RecordTrace), LinkRedirect(e.obj), 1, 1, GeoCalls(e.ip_address))

----------------------------------------------------------------------------
(* Writers of the link tables: the admin site and the CRUD viewsets *)

\* UrlAdmin / Url.save(): insert a new row or update one, under the unique
\* constraint.  The admin form does not run UrlSerializer.validate_short_code.
UrlSave(id, short_code, long_url, is_active) ==
    LET row == UrlRow(id, short_code, long_url, is_active) IN
    /\ \/ id = nextId /\ id <= MaxRows /\ nextId' = nextId + 1
       \/ (\E u \in urls : u.id = id) /\ nextId' = nextId
    /\ ~ UniqueViolation(urls, row)
    /\ row \notin urls
    /\ urls' = { u \in urls : u.id # id } \cup { row }
    /\ last' = StoreStep
    /\ UNCHANGED <<urlStats, links, linkStats, arrived, inflight, served, cr, now>>

\* UrlViewSet.destroy / admin delete: the row and, by cascade, its click events
UrlDelete(id) ==
    /\ \E u \in urls : u.id = id
    /\ urls' = { u \in urls : u.id # id }
    /\ urlStats' = CascadeDelete(urlStats, id)
    /\ served' = [served EXCEPT ![id] = 0]
    /\ last' = StoreStep
    /\ UNCHANGED <<links, linkStats, nextId, arrived, inflight, cr, now>>

\* LinkViewSet.create / update
LinkSave(id, url, is_active) ==
    LET row == LinkRow(id, Owner, url, is_active) IN
    /\ \/ id = nextId /\ id <= MaxRows /\ nextId' = nextId + 1
       \/ (\E l \in links : l.id = id) /\ nextId' = nextId
    /\ row \notin links
    /\ links' = { l \in links : l.id # id } \cup { row }
    /\ last' = StoreStep
    /\ UNCHANGED <<urls, urlStats, linkStats, arrived, inflight, served, cr, now>>

\* LinkViewSet.destroy
LinkDelete(id) ==
    /\ \E l \in links : l.id = id
    /\ links' = { l \in links : l.id # id }
    /\ linkStats' = CascadeDelete(linkStats, id)
    /\ served' = [served EXCEPT ![id] = 0]
    /\ last' = StoreStep
    /\ UNCHANGED <<urls, urlStats, nextId, arrived, inflight, cr, now>>

----------------------------------------------------------------------------
(* app_tinyurl.utils.generate_short_code *)

\* string.ascii_letters + string.digits without 'O0l1I'
CodeAlphabet ==
    ( { Lowers[i] : i \in DOMAIN Lowers } \cup { Uppers[i] : i \in DOMAIN Uppers }
      \cup { "0","1","2","3","4","5","6","7","8","9" } ) \ { "O", "0", "l", "1", "I" }

\* generate_short_code(length=6)
CodeLength == 6

\* a string generate_short_code() can return
IsGenerated(code) ==
    /\ Len(code) = CodeLength
    /\ \A i \in DOMAIN code : code[i] \in CodeAlphabet

Str_k7Qmzx == <<"k","7","Q","m","z","x">>
Str_static == <<"s","t","a","t","i","c">>

\* the candidates the allocation specification lets random.choice draw
GenCodes == { c \in { Str_k7Qmzx, Str_static } : IsGenerated(c) }

----------------------------------------------------------------------------
(* app_tinyurl.serializers.UrlSerializer: create and update *)

\* for _ in range(10)
MaxAttempts == 10

\* validated_data without a short_code key, and with short_code = ''
Absent == << None >>
Blank  == << >>

\* not validated_data.get('short_code')
LacksShortCode(short_code) == short_code \in { Absent, Blank }

\* Url.objects.filter(short_code=code).exists()
CodeExists(code) == \E u \in urls : u.short_code = code

\* a loop that stops one turn late
LoopExhausted_OneMore(attempts) == attempts > MaxAttempts

\* the for loop has used up range(10): its else clause raises
LoopExhausted(attempts) == attempts >= MaxAttempts

NoUrl == UrlRow(0, Blank, None, FALSE)

\* the locals of one serializer call: initial is the short_code of the
\* request data, short_code that of validated_data; attempts is the loop's
\* counter, which exists only while the call is in the loop
Call(pc, op, instance, initial, short_code, attempts, result) ==
    [pc |-> pc, op |-> op, instance |-> instance, initial |-> initial,
     short_code |-> short_code, attempts |-> attempts, result |-> result]

NoCall == Call("idle", None, NoUrl, Absent, Absent, 0, None)

\* a call that has returned or raised
Done(call, result) == Call("done", call.op, NoUrl, call.initial, call.short_code, 0, result)

\* the record of one serializer step: the call as the step found it, the
\* short code supplied or the candidate drawn, the call as the step left it,
\* the Url table as the step found it
AllocStep(op, call, cand, out) ==
    [op |-> op, call |-> call, cand |-> cand, out |-> out, before |-> urls]

\* validate_short_code: a supplied code that is a reserved path is refused
ValidateShortCode(value) ==
    Lower(value) \notin { Lower(p) : p \in ReservedPaths }

\* UniqueValidator of the unique field: another row holds the value
UniqueValidatorFails(value, instance) ==
    \E u \in urls : u.short_code = value /\ u.id # instance.id

\* The view up to serializer.is_valid(), and the test that opens
\* _ensure_short_code.  A supplied, non-blank short code is validated
\* (validate_short_code, and the UniqueValidator, which leaves the instance
\* under update out); a blank one skips the validators.  A call that enters
\* the loop has no short code yet, whether the key was missing or blank.
SerializerBegin(op, target, supplied) ==
    /\ arrived < NumCreators
    /\ arrived' = arrived + 1
    /\ \/ op = "create" /\ target = NoUrl
       \/ op = "update" /\ target \in urls
    /\ UNCHANGED <<urls, urlStats, links, linkStats, nextId, inflight, served, now>>
    /\ LET out == IF LacksShortCode(supplied)
                  THEN Call("ensure", op, target, supplied, Blank, 0, None)
                  ELSE IF ~ValidateShortCode(supplied) \/ UniqueValidatorFails(supplied, target)
                       THEN Done(Call("idle", op, target, supplied, supplied, 0, None), "ValidationError")
                       ELSE Call("save", op, target, supplied, supplied, 0, None)
       IN /\ last' = AllocStep("begin", NoCall, supplied, out)
          /\ cr' = IF out.pc = "done" THEN cr ELSE cr (+) SetToBag({out})

\* _ensure_short_code, one turn of the loop: draw a candidate, ask the store
\* whether it is in use, keep it if it is not; after the tenth candidate in
\* use the else clause raises ValidationError.
EnsureShortCode(call, code) ==
    /\ BagIn(call, cr)
    /\ call.pc = "ensure"
    /\ ~LoopExhausted(call.attempts)
    /\ UNCHANGED <<urls, urlStats, links, linkStats, nextId, arrived, inflight, served, now>>
    /\ LET tried == [call EXCEPT !.attempts = @ + 1]
           out == IF ~CodeExists(code)
                  THEN Call("save", call.op, call.instance, call.initial, code, 0, None)
                  ELSE IF LoopExhausted(tried.attempts)
                       THEN Done(tried, "CapacityExhausted")
                       ELSE tried
       IN /\ last' = AllocStep("attempt", call, code, out)
          /\ cr' = IF out.pc = "done"
                   THEN cr (-) SetToBag({call})
                   ELSE (cr (-) SetToBag({call})) (+) SetToBag({out})

\* super().create(validated_data) / super().update(instance, validated_data):
\* one INSERT or UPDATE under the unique constraint.  IntegrityError is not
\* caught anywhere: the call ends with it.
SerializerSave(call) ==
    /\ BagIn(call, cr)
    /\ call.pc = "save"
    /\ UNCHANGED <<urlStats, links, linkStats, arrived, inflight, served, now>>
    /\ cr' = cr (-) SetToBag({call})
    /\ LET row == IF call.op = "create"
                  THEN UrlRow(nextId, call.short_code, DestA, TRUE)
                  ELSE [call.instance EXCEPT !.short_code = call.short_code]
       IN IF UniqueViolation(urls, row)
          THEN /\ urls' = urls
               /\ nextId' = nextId
               /\ last' = AllocStep("save", call, call.short_code, Done(call, "IntegrityError"))
          ELSE /\ urls' = { u \in urls : u.id # row.id } \cup { row }
               /\ nextId' = IF call.op = "create" THEN nextId + 1 ELSE nextId
               /\ last' = AllocStep("save", call, call.short_code, Done(call, "saved"))

\* what a caller may send as short_code: nothing, a blank, a code of their
\* own, a reserved path
SuppliedCodes == { Absent, Blank, Str_go, Str_API }

\* the Url tables the allocation specification starts from: empty, one code
\* in use, every candidate in use
AllocStores ==
    { {},
      { UrlRow(1, Str_k7Qmzx, DestA, TRUE) },
      { UrlRow(1, Str_k7Qmzx, DestA, TRUE), UrlRow(2, Str_static, DestA, TRUE) } }

InitAlloc ==
    /\ urls \in AllocStores
    /\ urlStats = <<>>
    /\ links = {}
    /\ linkStats = <<>>
    /\ nextId = Cardinality(urls) + 1
    /\ arrived = 0
    /\ inflight = EmptyBag
    /\ served = [i \in Ids |-> 0]
    /\ last = [AllocStep("init", NoCall, Blank, NoCall) EXCEPT !.before = urls]
    /\ cr = EmptyBag
    /\ now = 0

NextAlloc ==
    \/ \E s \in SuppliedCodes : SerializerBegin("create", NoUrl, s)
    \/ \E s \in SuppliedCodes, u \in urls : SerializerBegin("update", u, s)
    \/ \E call \in BagToSet(cr), code \in GenCodes : EnsureShortCode(call, code)
    \/ \E call \in BagToSet(cr) : SerializerSave(call)

SpecAlloc == InitAlloc /\ [][NextAlloc]_vars

----------------------------------------------------------------------------
(* The redirect specification: an empty store, no request received *)

Init ==
    /\ urls = {}
    /\ urlStats = <<>>
    /\ links = {}
    /\ linkStats = <<>>
    /\ nextId = 1
    /\ arrived = 0
    /\ inflight = EmptyBag
    /\ served = [i \in Ids |-> 0]
    /\ last = [StoreStep EXCEPT !.op = "init"]
    /\ cr = EmptyBag
    /\ now = 0

\* the contexts of the redirect specification: a visitor with no user agent
\* whose location lookup times out, and a phone behind a proxy that scanned a
\* QR code and is located
PlainContext == Context(<<>>, "", Parsed(FALSE, FALSE, FALSE, FALSE), <<>>, "8.8.4.4", GeoTimeout)
PhoneContext == Context(<<"T","R","U","E">>, "iPhone", Parsed(FALSE, TRUE, FALSE, FALSE),
                        <<"8.8.8.8", "10.0.0.1">>, "10.0.0.1", GeoSuccess)
SpecContexts == { PlainContext, PhoneContext }

Next ==
    \/ \E c \in ShortCodes, ctx \in SpecContexts : RedirectViewLookup(c, ctx)
    \/ \E e \in BagToSet(inflight), f \in BOOLEAN : RedirectViewRecord(e, f)
    \/ \E i \in Ids, ctx \in SpecContexts : LinkRedirectLookup(i, ctx)
    \/ \E e \in BagToSet(inflight), f \in BOOLEAN : LinkRedirectRecord(e, f)
    \/ \E i \in Ids, f \in UrlForms : UrlSave(i, f[1], f[2], f[3])
    \/ \E i \in Ids : UrlDelete(i)
    \/ \E i \in Ids, d \in Dests, a \in BOOLEAN : LinkSave(i, d, a)
    \/ \E i \in Ids : LinkDelete(i)

Spec == Init /\ [][Next]_vars

----------------------------------------------------------------------------
(* The admin site on the click-event tables: UrlStatAdmin and LinkStatAdmin
   refuse add and change (has_add_permission, has_change_permission return
   False) and leave has_delete_permission at ModelAdmin's default, so the
   delete view and the "delete selected" action remove single events *)

\* the sequence without its i-th element
RemoveAt(stats, i) ==
    [k \in 1..(Len(stats) - 1) |-> IF k < i THEN stats[k] ELSE stats[k + 1]]

\* UrlStatAdmin: delete one UrlStat row
UrlStatAdminDelete(i) ==
    /\ i \in DOMAIN urlStats
    /\ urlStats' = RemoveAt(urlStats, i)
    /\ last' = StoreStep
    /\ UNCHANGED <<urls, links, linkStats, nextId, arrived, inflight, served, cr, now>>

\* LinkStatAdmin: delete one LinkStat row
LinkStatAdminDelete(i) ==
    /\ i \in DOMAIN linkStats
    /\ linkStats' = RemoveAt(linkStats, i)
    /\ last' = StoreStep
    /\ UNCHANGED <<urls, urlStats, links, nextId, arrived, inflight, served, cr, now>>

\* the redirect specification with the admin site on the click-event tables
NextAdmin ==
    \/ Next
    \/ \E i \in 1..NumReq : UrlStatAdminDelete(i)
    \/ \E i \in 1..NumReq : LinkStatAdminDelete(i)

SpecAdmin == Init /\ [][NextAdmin]_vars

----------------------------------------------------------------------------
(* Statistics: UrlViewSet.stats, LinkViewSet.stats, dashboard_stats *)

\* ticks in a calendar day
TicksPerDay == 2

\* TruncDate('created_at'): the calendar day of an instant
Date(t) == t \div TicksPerDay

\* start_date = timezone.now() - timedelta(days=days)
StartDate(days) == now - days * TicksPerDay

\* request.query_params.get('days', 30)
DefaultDays == 30

\* a filter on the window alone, over the events of all links
StatsInWindow_AllLinks(stats, ref, start_date) ==
    SelectSeq(stats, LAMBDA r : r.created_at >= start_date)

\* url.stats.filter(created_at__gte=start_date), link.stats.filter(...)
StatsInWindow(stats, ref, start_date) ==
    SelectSeq(stats, LAMBDA r : r.ref = ref /\ r.created_at >= start_date)

\* UrlStat.objects.filter(created_at__gte=start_date): the events of all links
RecentStats(stats, start_date) ==
    SelectSeq(stats, LAMBDA r : r.created_at >= start_date)

\* .filter(via_qrcode=True).count()
QrcodeCount(stats) == Len(SelectSeq(stats, LAMBDA r : r.via_qrcode))

\* groups that are not counted: every group that occurs has count 1
GroupCount_OnePerGroup(keys) ==
    [k \in { keys[i] : i \in DOMAIN keys } |-> 1]

\* .values(key).annotate(count=Count('id')), given the key of each row: one
\* group per key that occurs, with the number of rows that have it
GroupCount(keys) ==
    [k \in { keys[i] : i \in DOMAIN keys } |->
        Cardinality({ i \in DOMAIN keys : keys[i] = k })]

\* the elements of S in the order before, a strict total order on S given as
\* a function on pairs
RECURSIVE Ordered(_, _)
Ordered(S, before) ==
    IF S = {} THEN <<>>
    ELSE LET first == CHOOSE x \in S : \A y \in S \ {x} : before[x, y]
         IN <<first>> \o Ordered(S \ {first}, before)

\* [:10]
TopN == 10

\* a slice that keeps the whole list
Head_n_All(seq, n) == seq

\* seq[:n]
Head_n(seq, n) == SubSeq(seq, 1, IF Len(seq) < n THEN Len(seq) ELSE n)

\* dict(stats.values('device_type').annotate(count=Count('id'))
\*          .values_list('device_type', 'count'))
ClicksByDevice(stats) == GroupCount([i \in DOMAIN stats |-> stats[i].device_type])

\* the countries the geo-IP service names, in the order of their names
CountryNames ==
    <<"Argentina", "Belgium", "Canada", "Denmark", "Egypt", "France", "Germany",
      "Hungary", "India", "Japan", "Kenya", "Latvia", "Mexico", "Norway">>

CountryIndex(c) == CHOOSE i \in DOMAIN CountryNames : CountryNames[i] = c

\* The order in which the store returns groups of equal count is not fixed by
\* order_by('-count'): it is one of these, by name ascending or descending.
TieOrders == { "asc", "desc" }

TieBefore(order, a, b) ==
    IF order = "asc" THEN CountryIndex(a) < CountryIndex(b)
                     ELSE CountryIndex(a) > CountryIndex(b)

\* list(stats.exclude(country__isnull=True).values('country')
\*          .annotate(count=Count('id')).order_by('-count')[:10])
ClicksByCountry(stats, order) ==
    LET named  == SelectSeq(stats, LAMBDA r : r.country # None)
        groups == GroupCount([i \in DOMAIN named |-> named[i].country])
        rows   == Ordered(DOMAIN groups,
                          [a \in DOMAIN groups, b \in DOMAIN groups |->
                              \/ groups[a] > groups[b]
                              \/ groups[a] = groups[b] /\ TieBefore(order, a, b)])
    IN Head_n([i \in DOMAIN rows |-> [country |-> rows[i], count |-> groups[rows[i]]]], TopN)

\* a list with the latest day first
ClicksByDay_LatestFirst(stats) ==
    LET groups == GroupCount([i \in DOMAIN stats |-> Date(stats[i].created_at)])
        rows   == Ordered(DOMAIN groups, [a \in DOMAIN groups, b \in DOMAIN groups |-> a > b])
    IN [i \in DOMAIN rows |-> [date |-> rows[i], count |-> groups[rows[i]]]]

\* list(stats.annotate(date=TruncDate('created_at')).values('date')
\*          .annotate(count=Count('id')).order_by('date'))
ClicksByDay(stats) ==
    LET groups == GroupCount([i \in DOMAIN stats |-> Date(stats[i].created_at)])
        rows   == Ordered(DOMAIN groups, [a \in DOMAIN groups, b \in DOMAIN groups |-> a < b])
    IN [i \in DOMAIN rows |-> [date |-> rows[i], count |-> groups[rows[i]]]]

\* the data of a per-link stats response
StatsData(stats, order) ==
    [total_clicks      |-> Len(stats),
     qrcode_clicks     |-> QrcodeCount(stats),
     direct_clicks     |-> Len(stats) - QrcodeCount(stats),
     clicks_by_device  |-> ClicksByDevice(stats),
     clicks_by_country |-> ClicksByCountry(stats, order),
     clicks_by_day     |-> ClicksByDay(stats)]

NoData == StatsData(<<>>, "asc")

\* the record of one statistics request: the view, the user it filters by
\* (None for the views that do not), the object asked for (0 for a dashboard), the days parameter as sent, the window computed from it,
\* the status and the data of the response
StatsStep(op, user, id, param, days, status, data) ==
    [op |-> op, route |-> None, user |-> user, id |-> id, param |-> param, days |-> days,
     status |-> status, data |-> data]

Digits == <<"0", "1", "2", "3", "4", "5", "6", "7", "8", "9">>

IsDigit(c) == \E i \in DOMAIN Digits : Digits[i] = c

DigitValue(c) == (CHOOSE i \in DOMAIN Digits : Digits[i] = c) - 1

RECURSIVE DecimalValue(_)
DecimalValue(s) ==
    IF s = <<>> THEN 0
    ELSE 10 * DecimalValue(SubSeq(s, 1, Len(s) - 1)) + DigitValue(s[Len(s)])

IsDecimal(s) == s # <<>> /\ \A i \in DOMAIN s : IsDigit(s[i])

\* the outcome of a conversion: a value, or ValueError raised
Value(n) == [raises |-> FALSE, value |-> n]
ValueError == [raises |-> TRUE, value |-> 0]

\* int(s) of a str: decimal digits with an optional sign, ValueError otherwise
int(s) ==
    IF IsDecimal(s) THEN Value(DecimalValue(s))
    ELSE IF Len(s) > 1 /\ s[1] \in {"-", "+"} /\ IsDecimal(Tail(s))
         THEN Value(IF s[1] = "-" THEN 0 - DecimalValue(Tail(s)) ELSE DecimalValue(Tail(s)))
    ELSE ValueError

\* int(request.query_params.get('days', 30))
DaysOf(param) == IF param = Absent THEN Value(DefaultDays) ELSE int(param)

\* UrlViewSet.stats: get_object() answers 404 for an unknown id; an
\* exception raised by the view is answered 500
UrlViewSetStats(id, param, order) ==
    /\ UNCHANGED <<urls, urlStats, links, linkStats, nextId, arrived, inflight, served, cr, now>>
    /\ LET days == DaysOf(param) IN
       IF ~ \E u \in urls : u.id = id
       THEN last' = StatsStep("url_stats", None, id, param, 0, 404, NoData)
       ELSE IF days.raises
       THEN last' = StatsStep("url_stats", None, id, param, 0, 500, NoData)
       ELSE last' = StatsStep("url_stats", None, id, param, days.value, 200,
                       StatsData(StatsInWindow(urlStats, id, StartDate(days.value)), order))

\* LinkViewSet.get_queryset: Link.objects.filter(user=self.request.user)
get_queryset(user) == { l \in links : l.user = user }

\* LinkViewSet.stats: get_object() looks the id up in get_queryset()
LinkViewSetStats(user, id, param, order) ==
    /\ UNCHANGED <<urls, urlStats, links, linkStats, nextId, arrived, inflight, served, cr, now>>
    /\ LET days == DaysOf(param) IN
       IF ~ \E l \in get_queryset(user) : l.id = id
       THEN last' = StatsStep("link_stats", user, id, param, 0, 404, NoData)
       ELSE IF days.raises
       THEN last' = StatsStep("link_stats", user, id, param, 0, 500, NoData)
       ELSE last' = StatsStep("link_stats", user, id, param, days.value, 200,
                       StatsData(StatsInWindow(linkStats, id, StartDate(days.value)), order))

\* the order in which the store returns rows that the ORDER BY leaves equal:
\* by their id, forwards or backwards
TieBeforeRow(order, a, b) == IF order = "asc" THEN a < b ELSE a > b

\* UrlStatSerializer, LinkStatSerializer: the fields of one event; its id is
\* its place in the table
StatSerializer(stats, i) ==
    [id |-> i, created_at |-> stats[i].created_at, via_qrcode |-> stats[i].via_qrcode,
     device_type |-> stats[i].device_type, city |-> stats[i].city,
     country |-> stats[i].country]

\* the rows of a list from the last to the first
Reversed(seq) == [i \in DOMAIN seq |-> seq[Len(seq) + 1 - i]]

\* The serialized events of the instants t, t - 1, ..., 0, a later instant
\* before an earlier one; the events of one instant in the order of the store.
RECURSIVE LatestFirst(_, _, _)
LatestFirst(rows, t, order) ==
    IF t < 0 THEN <<>>
    ELSE LET same == SelectSeq(rows, LAMBDA r : r.created_at = t)
         IN (IF order = "asc" THEN same ELSE Reversed(same))
            \o LatestFirst(rows, t - 1, order)

\* the first rows in the order in which the table stores them
RecentClicks_Unordered(stats, order) ==
    Head_n([i \in DOMAIN stats |-> StatSerializer(stats, i)], TopN)

\* UrlStat.objects.select_related('url')[:10] under Meta.ordering =
\* ['-created_at'], serialized; no event is later than now
RecentClicks(stats, order) ==
    Head_n(LatestFirst([i \in DOMAIN stats |-> StatSerializer(stats, i)], now, order), TopN)

\* Url.objects.annotate(click_count=Count('stats',
\*     filter=Q(stats__created_at__gte=start_date)))
\*   .filter(click_count__gt=0).order_by('-click_count')[:10]
\*   .values('id', 'short_code', 'long_url', 'click_count')
TopUrls(start_date, order) ==
    LET click_count == [u \in urls |-> Len(StatsInWindow(urlStats, u.id, start_date))]
        counted     == { u \in urls : click_count[u] > 0 }
        rows        == Ordered(counted,
                               [a \in counted, b \in counted |->
                                   \/ click_count[a] > click_count[b]
                                   \/ /\ click_count[a] = click_count[b]
                                      /\ TieBeforeRow(order, a.id, b.id)])
    IN Head_n([i \in DOMAIN rows |->
                 [id |-> rows[i].id, short_code |-> rows[i].short_code,
                  long_url |-> rows[i].long_url, click_count |-> click_count[rows[i]]]],
              TopN)

\* Link.objects.annotate(click_count=Count('stats'))
\*   .filter(stats__created_at__gte=start_date)
\*   .order_by('-click_count')[:10].values('id', 'name', 'url', 'click_count')
\* The filter that follows the annotation joins the stats table a second
\* time: a link is listed when it has an event in the window, and
\* Count('stats') counts the pairs of any event of the link with an event of
\* the link in the window.
TopLinks(start_date, order) ==
    LET click_count == [l \in links |->
                           Len(StatsOf(linkStats, l.id))
                           * Len(StatsInWindow(linkStats, l.id, start_date))]
        listed      == { l \in links : Len(StatsInWindow(linkStats, l.id, start_date)) > 0 }
        rows        == Ordered(listed,
                               [a \in listed, b \in listed |->
                                   \/ click_count[a] > click_count[b]
                                   \/ /\ click_count[a] = click_count[b]
                                      /\ TieBeforeRow(order, a.id, b.id)])
    IN Head_n([i \in DOMAIN rows |->
                 [id |-> rows[i].id, url |-> rows[i].url,
                  click_count |-> click_count[rows[i]]]],
              TopN)

\* app_tinyurl.views.dashboard_stats: the figures over all Urls
DashboardStats(param, order) ==
    /\ UNCHANGED <<urls, urlStats, links, linkStats, nextId, arrived, inflight, served, cr, now>>
    /\ LET days == DaysOf(param) IN
       IF days.raises
       THEN last' = StatsStep("dashboard", None, 0, param, 0, 500, NoData)
       ELSE LET start_date   == StartDate(days.value)
                recent_stats == RecentStats(urlStats, start_date)
            IN last' = StatsStep("dashboard", None, 0, param, days.value, 200,
                          [total_urls    |-> Cardinality(urls),
                           active_urls   |-> Cardinality({ u \in urls : u.is_active }),
                           total_clicks  |-> Len(recent_stats),
                           qrcode_clicks |-> QrcodeCount(recent_stats),
                           recent_clicks |-> RecentClicks(urlStats, order),
                           top           |-> TopUrls(start_date, order),
                           clicks_by_day |-> ClicksByDay(recent_stats)])

\* app_linktree.views.dashboard_stats, requested by user: the figures over
\* all Links
LinkDashboardStats(user, param, order) ==
    /\ UNCHANGED <<urls, urlStats, links, linkStats, nextId, arrived, inflight, served, cr, now>>
    /\ LET days == DaysOf(param) IN
       IF days.raises
       THEN last' = StatsStep("link_dashboard", user, 0, param, 0, 500, NoData)
       ELSE LET start_date   == StartDate(days.value)
                recent_stats == RecentStats(linkStats, start_date)
            IN last' = StatsStep("link_dashboard", user, 0, param, days.value, 200,
                          [total_links   |-> Cardinality(links),
                           active_links  |-> Cardinality({ l \in links : l.is_active }),
                           total_clicks  |-> Len(recent_stats),
                           qrcode_clicks |-> QrcodeCount(recent_stats),
                           recent_clicks |-> RecentClicks(linkStats, order),
                           top           |-> TopLinks(start_date, order),
                           clicks_by_day |-> ClicksByDay(recent_stats)])

----------------------------------------------------------------------------
(* The statistics specification: a store of two Urls and a Link with click
   events of several days, countries and devices; statistics are requested for
   several windows while time passes; nothing is written *)

\* countries from which the first Url may have been visited
NumCountries == 12

\* the days over which the stored events are spread
EventDays == 3

\* the last instant of the last of these days
LastTick == EventDays * TicksPerDay - 1

DeviceSeq == <<"mobile", "tablet", "desktop", "unknown">>

\* the k-th event of a table: its instant, its QR mark and its device follow k
EventOf(ref, k, country) ==
    StatRow(ref, k % (LastTick + 1), k % 2 = 0, DeviceSeq[1 + (k % 3)],
            [city |-> None, country |-> country], "8.8.8.8", "agent")

\* visits of the i-th country in the table of pattern m: one to m
VisitsOf(i, m) == 1 + (i % m)

\* visits of the first i countries
RECURSIVE CountryVisits(_, _)
CountryVisits(i, m) ==
    IF i = 0 THEN <<>>
    ELSE CountryVisits(i - 1, m)
         \o [j \in 1..VisitsOf(i, m) |-> EventOf(1, 3 * i + j, CountryNames[i])]

\* The UrlStat table with visits to the first Url from n countries, one
\* without a country at the first instant and one at the last, and two
\* visits to the second Url
EventTable(n, m) ==
    CountryVisits(n, m)
    \o << EventOf(1, 0, None), EventOf(1, LastTick, None),
          EventOf(2, LastTick, CountryNames[1]), EventOf(2, LastTick - 1, CountryNames[2]) >>

\* how many countries the first Url was visited from: none, a few, and
\* around the length of the list of top countries
VisitedCountries == { 0, 2 } \cup (NumCountries - 2)..NumCountries

StatIds == 1..3

\* the days parameters sent: none, windows of 0, 1, 2 and 30 days, a window
\* that starts tomorrow, and two that are no numbers
DaysParams ==
    { Absent, <<"0">>, <<"1">>, <<"2">>, <<"3", "0">>, <<"-", "1">>,
      <<"a", "b", "c">>, <<>> }

InitStats ==
    /\ urls = { UrlRow(1, Str_go, DestA, TRUE), UrlRow(2, Str_k7Qmzx, DestB, FALSE) }
    /\ urlStats \in { EventTable(n, m) : n \in VisitedCountries, m \in 1..3 }
    /\ links = { LinkRow(1, Owner, DestA, TRUE) }
    /\ linkStats = << EventOf(1, 1, CountryNames[1]), EventOf(1, 2, None),
                      EventOf(1, LastTick, CountryNames[1]) >>
    /\ nextId = 3
    /\ arrived = 0
    /\ inflight = EmptyBag
    /\ served = [i \in Ids |-> 0]
    /\ last = StatsStep("init", None, 0, Absent, 0, 0, NoData)
    /\ cr = EmptyBag
    /\ now = LastTick

\* time passes, for one day at most
Tick ==
    /\ now < LastTick + TicksPerDay
    /\ now' = now + 1
    /\ last' = StatsStep("tick", None, 0, Absent, 0, 0, NoData)
    /\ UNCHANGED <<urls, urlStats, links, linkStats, nextId, arrived, inflight, served, cr>>

NextStats ==
    \/ \E id \in StatIds, param \in DaysParams, order \in TieOrders :
          UrlViewSetStats(id, param, order)
    \/ \E id \in StatIds, param \in DaysParams, order \in TieOrders :
          LinkViewSetStats(Owner, id, param, order)
    \/ \E param \in DaysParams, order \in TieOrders : DashboardStats(param, order)
    \/ \E param \in DaysParams, order \in TieOrders :
          LinkDashboardStats(Owner, param, order)
    \/ Tick

SpecStats == InitStats /\ [][NextStats]_vars

----------------------------------------------------------------------------
(* The statistics views query by query.  The querysets of UrlViewSet.stats
   and LinkViewSet.stats are lazy and the settings do not set
   ATOMIC_REQUESTS: each of stats.count(), stats.filter(...).count() and the
   three breakdowns is a query of its own, in its own transaction, and
   redirects may insert click events between any two of them. *)

\* the queries of a stats view in the order in which it runs them
StatsQueries ==
    <<"total_clicks", "qrcode_clicks", "clicks_by_device", "clicks_by_country",
      "clicks_by_day">>

\* the locals of one stats call: the next query to run (an index of
\* StatsQueries), the view, the user, the object, the days parameter, the window and
\* the figures computed so far
StatsCall(pc, view, user, id, param, days, start_date, data) ==
    [pc |-> pc, view |-> view, user |-> user, id |-> id, param |-> param, days |-> days,
     start_date |-> start_date, data |-> data]

\* the click-event table a view reads, and the ids of the objects it serves
TableOf(view) == IF view = "url_stats" THEN urlStats ELSE linkStats
ObjectsOf(view, user) ==
    IF view = "url_stats" THEN { u.id : u \in urls }
    ELSE { l.id : l \in get_queryset(user) }

\* statistics calls served at a time
NumStatCalls == 1

\* get_object(), days and start_date
StatsBegin(view, user, id, param) ==
    /\ BagCardinality(cr) < NumStatCalls
    /\ UNCHANGED <<urls, urlStats, links, linkStats, nextId, arrived, inflight, served, now>>
    /\ LET days == DaysOf(param) IN
       IF id \notin ObjectsOf(view, user)
       THEN /\ cr' = cr
            /\ last' = StatsStep(view, user, id, param, 0, 404, NoData)
       ELSE IF days.raises
       THEN /\ cr' = cr
            /\ last' = StatsStep(view, user, id, param, 0, 500, NoData)
       ELSE /\ cr' = cr (+) SetToBag({ StatsCall(1, view, user, id, param, days.value,
                                                StartDate(days.value), NoData) })
            /\ last' = StatsStep("begin", user, id, param, days.value, 0, NoData)

\* The next query of a stats call, on the store as it is now; the last one
\* is followed by the response.
StatsQuery(call, order) ==
    /\ BagIn(call, cr)
    /\ UNCHANGED <<urls, urlStats, links, linkStats, nextId, arrived, inflight, served, now>>
    /\ LET stats == StatsInWindow(TableOf(call.view), call.id, call.start_date)
           query == StatsQueries[call.pc]
           data  == CASE query = "total_clicks" ->
                            [call.data EXCEPT !.total_clicks = Len(stats)]
                      [] query = "qrcode_clicks" ->
                            [call.data EXCEPT !.qrcode_clicks = QrcodeCount(stats)]
                      [] query = "clicks_by_device" ->
                            [call.data EXCEPT !.clicks_by_device = ClicksByDevice(stats)]
                      [] query = "clicks_by_country" ->
                            [call.data EXCEPT !.clicks_by_country = ClicksByCountry(stats, order)]
                      [] query = "clicks_by_day" ->
                            [call.data EXCEPT
                                !.clicks_by_day = ClicksByDay(stats),
                                !.direct_clicks = call.data.total_clicks
                                                  - call.data.qrcode_clicks]
       IN IF call.pc < Len(StatsQueries)
          THEN /\ cr' = (cr (-) SetToBag({call}))
                        (+) SetToBag({ [call EXCEPT !.pc = @ + 1, !.data = data] })
               /\ last' = StatsStep("query", call.user, call.id, call.param, call.days, 0, data)
          ELSE /\ cr' = cr (-) SetToBag({call})
               /\ last' = StatsStep(call.view, call.user, call.id, call.param, call.days, 200, data)

StatsViews == { "url_stats", "link_stats" }

\* a Url and a Link, stored and active, not yet visited
InitRace ==
    /\ urls = { UrlRow(1, Str_go, DestA, TRUE) }
    /\ urlStats = <<>>
    /\ links = { LinkRow(1, Owner, DestA, TRUE) }
    /\ linkStats = <<>>
    /\ nextId = 2
    /\ arrived = 0
    /\ inflight = EmptyBag
    /\ served = [i \in Ids |-> 0]
    /\ last = [StoreStep EXCEPT !.op = "init"]
    /\ cr = EmptyBag
    /\ now = 0

NextRace ==
    \/ \E ctx \in SpecContexts : RedirectViewLookup(Str_go, ctx)
    \/ \E e \in BagToSet(inflight), f \in BOOLEAN : RedirectViewRecord(e, f)
    \/ \E i \in Ids, ctx \in SpecContexts : LinkRedirectLookup(i, ctx)
    \/ \E e \in BagToSet(inflight), f \in BOOLEAN : LinkRedirectRecord(e, f)
    \/ \E view \in StatsViews, id \in 1..2, param \in { Absent, <<"a", "b", "c">> } :
          StatsBegin(view, Owner, id, param)
    \/ \E call \in BagToSet(cr), order \in TieOrders : StatsQuery(call, order)

SpecRace == InitRace /\ [][NextRace]_vars

----------------------------------------------------------------------------
(* The link-ID variant with two users: the LinkViewSet operations on one
   link, which look it up in get_queryset(), and the dashboard *)

\* LinkViewSet.retrieve
LinkViewSetRetrieve(user, id) ==
    /\ UNCHANGED <<urls, urlStats, links, linkStats, nextId, arrived, inflight, served, cr, now>>
    /\ last' = StatsStep("retrieve", user, id, Absent, 0,
                         IF \E l \in get_queryset(user) : l.id = id THEN 200 ELSE 404,
                         NoData)

\* LinkViewSet.update
LinkViewSetUpdate(user, id, url, is_active) ==
    /\ UNCHANGED <<urls, urlStats, linkStats, nextId, arrived, inflight, served, cr, now>>
    /\ IF \E l \in get_queryset(user) : l.id = id
       THEN /\ links' = { l \in links : l.id # id } \cup { LinkRow(id, user, url, is_active) }
            /\ last' = StatsStep("update", user, id, Absent, 0, 200, NoData)
       ELSE /\ links' = links
            /\ last' = StatsStep("update", user, id, Absent, 0, 404, NoData)

\* LinkViewSet.destroy
LinkViewSetDestroy(user, id) ==
    /\ UNCHANGED <<urls, urlStats, nextId, arrived, inflight, served, cr, now>>
    /\ IF \E l \in get_queryset(user) : l.id = id
       THEN /\ links' = { l \in links : l.id # id }
            /\ linkStats' = CascadeDelete(linkStats, id)
            /\ last' = StatsStep("destroy", user, id, Absent, 0, 204, NoData)
       ELSE /\ links' = links
            /\ linkStats' = linkStats
            /\ last' = StatsStep("destroy", user, id, Absent, 0, 404, NoData)

\* what the other user may have stored: nothing, a link never visited, a
\* link with two visits, active or not
OtherStores ==
    { <<{}, <<>>>> }
    \cup { <<{ LinkRow(2, "bob", DestB, a) }, ev>> :
             a \in BOOLEAN,
             ev \in { <<>>, << EventOf(2, LastTick, CountryNames[2]),
                              EventOf(2, 1, CountryNames[1]) >> } }

InitOwner ==
    /\ urls = {}
    /\ urlStats = <<>>
    /\ \E other \in OtherStores :
          /\ links = { LinkRow(1, "alice", DestA, TRUE) } \cup other[1]
          /\ linkStats = << EventOf(1, 1, CountryNames[1]), EventOf(1, LastTick, None) >>
                         \o other[2]
    /\ nextId = 3
    /\ arrived = 0
    /\ inflight = EmptyBag
    /\ served = [i \in Ids |-> 0]
    /\ last = StatsStep("init", None, 0, Absent, 0, 0, NoData)
    /\ cr = EmptyBag
    /\ now = LastTick

NextOwner ==
    \/ \E user \in Users, id \in 1..2 : LinkViewSetRetrieve(user, id)
    \/ \E user \in Users, id \in 1..2, url \in Dests, a \in BOOLEAN :
          LinkViewSetUpdate(user, id, url, a)
    \/ \E user \in Users, id \in 1..2 : LinkViewSetDestroy(user, id)
    \/ \E user \in Users, id \in 1..2, param \in { Absent, <<"1">> }, order \in TieOrders :
          LinkViewSetStats(user, id, param, order)
    \/ \E user \in Users, param \in { Absent, <<"1">> }, order \in TieOrders :
          LinkDashboardStats(user, param, order)

SpecOwner == InitOwner /\ [][NextOwner]_vars

----------------------------------------------------------------------------
(* The tracking specification: links are created, active, and then requested
   in every request context; nothing is updated or deleted *)

NextCtx ==
    \/ \E ctx \in Contexts : RedirectViewLookup(Str_go, ctx)
    \/ \E e \in BagToSet(inflight), f \in BOOLEAN : RedirectViewRecord(e, f)
    \/ \E i \in Ids, ctx \in Contexts : LinkRedirectLookup(i, ctx)
    \/ \E e \in BagToSet(inflight), f \in BOOLEAN : LinkRedirectRecord(e, f)
    \/ UrlSave(nextId, Str_go, DestA, TRUE)
    \/ LinkSave(nextId, DestB, TRUE)

SpecCtx == Init /\ [][NextCtx]_vars

\* the same with the request contexts of the device specification
NextDev ==
    \/ \E ctx \in DeviceContexts : RedirectViewLookup(Str_go, ctx)
    \/ \E e \in BagToSet(inflight), f \in BOOLEAN : RedirectViewRecord(e, f)
    \/ \E i \in Ids, ctx \in DeviceContexts : LinkRedirectLookup(i, ctx)
    \/ \E e \in BagToSet(inflight), f \in BOOLEAN : LinkRedirectRecord(e, f)
    \/ UrlSave(nextId, Str_go, DestA, TRUE)
    \/ LinkSave(nextId, DestB, TRUE)

SpecDev == Init /\ [][NextDev]_vars

----------------------------------------------------------------------------
(* What a step of the redirect handlers looks like from outside *)

Responded(status) == last.op \in {"lookup", "record"} /\ last.resp.status = status

\* the latest step was a lookup that found its link and went on to record
Resolved == last.op = "lookup" /\ last.entry # NoEntry

\* what the tables, as the latest step found them, hold for its identifier
ActiveRows ==
    IF last.route = "short"
    THEN { u \in last.before.urls : u.short_code = last.ident /\ u.is_active }
    ELSE { l \in last.before.links : l.id = last.ident /\ l.is_active }

InactiveRows ==
    IF last.route = "short"
    THEN { u \in last.before.urls : u.short_code = last.ident /\ ~u.is_active }
    ELSE { l \in last.before.links : l.id = last.ident /\ ~l.is_active }

\* the destination field of a row of the latest step's route
Destination(row) == IF last.route = "short" THEN row.long_url ELSE row.url

\* the click-event table of the latest step's route, now and as the step found it
StatsNow    == IF last.route = "short" THEN urlStats ELSE linkStats
StatsBefore == IF last.route = "short" THEN last.before.urlStats ELSE last.before.linkStats

\* the latest step left every table as it found it
StoreUntouched == Tables(urls, urlStats, links, linkStats) = last.before

\* the identifier of the latest step is a reserved path, ignoring case (the
\* configured paths are all lower case)
ReservedIdent == last.route = "short" /\ Lower(last.ident) \in ReservedPaths

----------------------------------------------------------------------------
(* C1: every redirect response targets exactly the destination that the row
   stored, active, under the requested identifier held when it was looked
   up; a request for the identifier of an active link (not a reserved path)
   is never answered not-found, and the response of the recording step is
   that redirect or nothing but the failure of the insert. *)
C1_RedirectTargetsStoredDestination ==
    /\ Resolved =>
          /\ last.entry.obj \in ActiveRows
          /\ last.resp = NoResponse
    /\ (last.op = "lookup" /\ ActiveRows # {} /\ ~ReservedIdent) => Resolved
    /\ last.op = "record" =>
          \/ last.resp = HttpResponseRedirect(Destination(last.entry.obj))
          \/ last.resp = ServerError
    /\ Responded(302) => last.op = "record"

\* a redirect to the destination read at lookup time, which the row no longer holds
C1_Witness ==
    /\ Responded(302)
    /\ last.route = "short"
    /\ \E u \in urls : u.id = last.entry.obj.id /\ u.long_url # last.resp.location

(* C2: a request for an identifier whose link is stored but inactive gets the
   same outcome as one for an identifier that is not stored: the 404 page
   with the same context, no click event written, the store untouched; on
   both routes. *)
C2_InactiveLikeAbsent ==
    (last.op = "lookup" /\ ActiveRows = {}) =>
        /\ last.resp = NotFoundPage
        /\ last.entry = NoEntry
        /\ last.writes = 0
        /\ StoreUntouched

\* the 404 page for the short code of a stored, inactive Url
C2_Witness ==
    /\ last.op = "lookup"
    /\ last.route = "short"
    /\ InactiveRows # {}
    /\ last.resp = NotFoundPage

(* C3: redirect_view answers a short code that equals a reserved path, ignoring
   case, with the 404 page, without any store lookup or click-event write,
   even when an active Url with that short code is stored. *)
C3_ReservedNeverLookedUp ==
    (last.op = "lookup" /\ ReservedIdent) =>
        /\ last.resp = NotFoundPage
        /\ last.entry = NoEntry
        /\ last.lookups = 0
        /\ last.writes = 0
        /\ StoreUntouched

\* 'API' is requested while an active Url with short code 'API' is stored
C3_Witness ==
    /\ last.op = "lookup"
    /\ last.route = "short"
    /\ last.ident = Str_API
    /\ ActiveRows # {}
    /\ last.resp = NotFoundPage

(* C4: a request that ends in a redirect has written exactly one click event,
   which references the link resolved for it; a request that ends in not-found
   has written none; so the click events of a stored link number the
   redirects completed for it. *)
C4_OneEventPerRedirect ==
    /\ Responded(302) =>
          /\ last.writes = 1
          /\ StatsNow = Append(StatsBefore, StatOf(last.entry))
          /\ StatsNow[Len(StatsNow)].ref = last.entry.obj.id
    /\ Responded(404) =>
          /\ last.writes = 0
          /\ StatsNow = StatsBefore
    /\ \A u \in urls : Len(StatsOf(urlStats, u.id)) = served[u.id]
    /\ \A l \in links : Len(StatsOf(linkStats, l.id)) = served[l.id]

\* the second redirect completed for one Url: two click events
C4_Witness ==
    /\ Responded(302)
    /\ \E u \in urls : served[u.id] = 2 /\ Len(StatsOf(urlStats, u.id)) = 2

(* C5: when the requests run concurrently against one active link and every
   request completed so far ended in a redirect for it (no write failed),
   the link has exactly one click event per completed request: none lost,
   none duplicated. *)
C5_ConcurrentRedirectsAllRecorded ==
    /\ \A u \in urls :
          served[u.id] = arrived - BagCardinality(inflight)
              => Len(StatsOf(urlStats, u.id)) = arrived - BagCardinality(inflight)
    /\ \A l \in links :
          served[l.id] = arrived - BagCardinality(inflight)
              => Len(StatsOf(linkStats, l.id)) = arrived - BagCardinality(inflight)
    /\ Len(urlStats) + Len(linkStats) + BagCardinality(inflight) <= arrived

\* one of the concurrent requests for a link has been recorded while the
\* others are still between their lookup and their insert
C5_Witness ==
    /\ arrived = NumReq
    /\ last.op = "record"
    /\ BagCardinality(inflight) = NumReq - 1
    /\ \E l \in links :
          /\ served[l.id] = 1
          /\ Len(StatsOf(linkStats, l.id)) = 1
          /\ \A e \in BagToSet(inflight) : e.route = "link" /\ e.obj.id = l.id

(* C9: every redirect request ends in a redirect or in not-found, never in an
   internal error, also when the click-event insert fails or the link is
   deleted between the lookup and the insert. *)
C9_NeverInternalError ==
    last.op \in {"lookup", "record"} => last.resp.status \in {0, 302, 404}

----------------------------------------------------------------------------
(* Short-code allocation *)

\* C6: in every reachable state no two stored Url rows have the same
\* short_code, also after creations and updates that passed the existence
\* check with the same candidate before either of them wrote.
C6_ShortCodesUnique ==
    \A u \in urls, v \in urls : u.short_code = v.short_code => u = v

\* two calls passed the existence check with one candidate; the first wrote
\* it, the store refused the second
C6_Witness ==
    /\ last.op = "save"
    /\ last.cand \in GenCodes
    /\ last.out.result = "IntegrityError"
    /\ \E u \in urls : u.short_code = last.cand /\ u.id # last.call.instance.id

\* C7 (as the specification states it): a call whose write the unique
\* constraint refuses does not end there; it ends with a stored Url or with
\* CapacityExhausted.
C7_RefusedWriteIsRetried ==
    (last.op = "save" /\ last.call.op = "create" /\ last.cand \in GenCodes)
        => last.out.result # "IntegrityError"

\* C8: the allocation draws a candidate and checks it against the stored
\* codes at most 10 times; the first candidate found free is the one
\* assigned; after 10 candidates in use the call fails with the validation
\* error, the Url table is as it was, and there is no 11th attempt.
C8_TenAttemptsFirstFree ==
    /\ \A call \in BagToSet(cr) : call.attempts < MaxAttempts
    /\ last.op = "attempt" =>
          /\ last.call.attempts < MaxAttempts
          /\ IF ~ \E u \in last.before : u.short_code = last.cand
             THEN /\ last.out.pc = "save"
                  /\ last.out.short_code = last.cand
             ELSE IF last.call.attempts + 1 = MaxAttempts
                  THEN last.out.result = "CapacityExhausted"
                  ELSE /\ last.out.pc = "ensure"
                       /\ last.out.attempts = last.call.attempts + 1
          /\ urls = last.before
    /\ last.out.result = "CapacityExhausted" =>
          /\ last.op = "attempt"
          /\ last.call.attempts = MaxAttempts - 1
          /\ urls = last.before

\* a call found its tenth candidate in use and failed
C8_Witness ==
    /\ last.op = "attempt"
    /\ last.out.result = "CapacityExhausted"
    /\ last.call.attempts = MaxAttempts - 1
    /\ \A code \in GenCodes : \E u \in urls : u.short_code = code

----------------------------------------------------------------------------
(* Geolocation failures *)

\* the geo-IP lookup of the request of a lookup step was made and failed
GeoLookupFailed ==
    /\ ~SkipsLookup(get_client_ip(last.ctx.xff, last.ctx.remote_addr))
    /\ last.ctx.geo \in GeoFailures

\* C10: get_location_from_ip never raises: when the lookup times out, cannot
\* connect, answers with a status other than 200, with a body that is not
\* JSON or with a status other than 'success', it returns {city: None,
\* country: None} and the handler goes on to the insert; and the insert of a
\* request whose location is absent and whose device is unknown, when the
\* store takes it, writes one click event with no city and no country and
\* answers with the redirect to the destination.
C10_GeoFailureNeverFailsRedirect ==
    /\ (last.op = "lookup" /\ last.entry # NoEntry) =>
          /\ last.entry.location # Raised
          /\ GeoLookupFailed =>
                /\ last.entry.location = NoLocation
                /\ last.resp = NoResponse
                /\ BagIn(last.entry, inflight)
    /\ (last.op = "lookup" /\ ActiveRows # {} /\ ~ReservedIdent) => last.entry # NoEntry
    /\ (last.op = "record" /\ last.entry.location = NoLocation
           /\ last.entry.device_type = "unknown" /\ last.resp # ServerError) =>
          /\ last.resp = HttpResponseRedirect(Destination(last.entry.obj))
          /\ last.writes = 1
          /\ Len(StatsNow) = Len(StatsBefore) + 1
          /\ StatsNow[Len(StatsNow)].ref = last.entry.obj.id
          /\ StatsNow[Len(StatsNow)].city = None
          /\ StatsNow[Len(StatsNow)].country = None

\* a visitor from a public address whose lookup failed and whose agent could
\* not be classified has been redirected, the click event stored without a place
C10_Witness ==
    /\ last.op = "record"
    /\ last.resp.status = 302
    /\ last.entry.ip_address = "8.8.8.8"
    /\ last.entry.location = NoLocation
    /\ last.entry.device_type = "unknown"
    /\ StatsNow # <<>>
    /\ StatsNow[Len(StatsNow)].city = None

----------------------------------------------------------------------------
(* Addresses that are never looked up *)

\* loopback and private-range addresses, as the specification names them
\* (127.0.0.0/8 and ::1; 10.0.0.0/8, 172.16.0.0/12, 192.168.0.0/16): the ones
\* among the client addresses of the request contexts
LoopbackIps == { "127.0.0.1", "::1" }
PrivateIps  == { "10.0.0.1", "192.168.1.20", "172.16.0.9" }

\* C11 (as the specification states it): for a client address that is empty,
\* loopback or private the location is {None, None} and no outbound lookup
\* is issued; for every other address exactly one lookup is issued.
C11_PrivateAndLoopbackSkipLookup ==
    (last.op = "lookup" /\ last.entry # NoEntry) =>
        IF last.entry.ip_address \in { None, "" } \cup LoopbackIps \cup PrivateIps
        THEN /\ last.entry.location = NoLocation
             /\ last.geocalls = 0
        ELSE last.geocalls = 1

----------------------------------------------------------------------------
(* Click events and their links *)

\* C12: in every reachable state every click event references a link that is
\* stored: the cascade removes the events of a deleted link, and the insert
\* of a request whose link was deleted after its lookup is refused.
C12_EventsReferenceStoredLinks ==
    /\ \A i \in DOMAIN urlStats  : \E u \in urls  : u.id = urlStats[i].ref
    /\ \A i \in DOMAIN linkStats : \E l \in links : l.id = linkStats[i].ref

\* a request looked its link up, the link was deleted, and the insert of the
\* request was then attempted: no event of the deleted link is stored
C12_Witness ==
    /\ last.op = "record"
    /\ last.route = "short"
    /\ ~ \E u \in urls : u.id = last.entry.obj.id
    /\ last.writes = 0
    /\ ~ \E i \in DOMAIN urlStats : urlStats[i].ref = last.entry.obj.id

\* stats is a prefix of later
IsPrefix(stats, later) ==
    /\ Len(stats) <= Len(later)
    /\ \A i \in DOMAIN stats : later[i] = stats[i]

\* C13 (as the specification states it): a stored click event never changes,
\* and it leaves the store only with its link: in every step the events of
\* each link that is still stored afterwards are all still there, unchanged
\* and in order, with new events only added after them.
C13_EventsImmutable ==
    [][ /\ \A u \in urls' : IsPrefix(StatsOf(urlStats, u.id), StatsOf(urlStats', u.id))
        /\ \A l \in links' : IsPrefix(StatsOf(linkStats, l.id), StatsOf(linkStats', l.id))
      ]_vars

----------------------------------------------------------------------------
(* The order of the steps of one request *)

\* the steps of a redirect request in the order the specification gives them
StepOrder ==
    <<"reserved_check", "lookup", "classify_device", "geolocate", "write", "respond">>

\* the place of a step in that order
Rank(step) == CHOOSE i \in DOMAIN StepOrder : StepOrder[i] = step

----------------------------------------------------------------------------
(* Device classification *)

\* C15: get_device_type returns one of mobile, tablet, desktop, unknown and
\* never raises: unknown for an empty user agent whatever the parser would
\* say, unknown when the parser raises, otherwise the first signal set among
\* mobile, tablet, desktop in this order, and unknown when none is set; every
\* stored click event has one of the four classes.
C15_DeviceClassPrecedence ==
    /\ (last.op = "lookup" /\ last.entry # NoEntry) =>
          LET ua == last.ctx.ua
              p  == last.ctx.parsed
              d  == last.entry.device_type
          IN /\ d \in DeviceClasses
             /\ last.resp = NoResponse
             /\ (ua = "" \/ p.raises) => d = "unknown"
             /\ (ua # "" /\ ~p.raises) =>
                   /\ p.is_mobile => d = "mobile"
                   /\ (~p.is_mobile /\ p.is_tablet) => d = "tablet"
                   /\ (~p.is_mobile /\ ~p.is_tablet /\ p.is_pc) => d = "desktop"
                   /\ (~p.is_mobile /\ ~p.is_tablet /\ ~p.is_pc) => d = "unknown"
    /\ \A i \in DOMAIN urlStats  : urlStats[i].device_type \in DeviceClasses
    /\ \A i \in DOMAIN linkStats : linkStats[i].device_type \in DeviceClasses

\* the parser set the tablet and the desktop signal for one agent, and the
\* event stored for the request has class tablet
C15_Witness ==
    /\ last.op = "record"
    /\ last.resp.status = 302
    /\ last.entry.user_agent = "agent"
    /\ last.entry.device_type = "tablet"
    /\ StatsNow # <<>>
    /\ StatsNow[Len(StatsNow)].device_type = "tablet"

----------------------------------------------------------------------------
(* The QR-code mark *)

\* the spellings of 'true' in either case of each letter
TrueSpellings ==
    { <<t, r, u, e>> : t \in {"t", "T"}, r \in {"r", "R"}, u \in {"u", "U"}, e \in {"e", "E"} }

\* C16: on both routes the click event of a request has via_qrcode TRUE iff
\* the qrcode parameter of the request is 'true' in some spelling; a missing
\* or empty parameter, '1' and 'yes' give FALSE.
C16_ViaQrcodeIffTrue ==
    /\ (last.op = "lookup" /\ last.entry # NoEntry) =>
          (last.entry.via_qrcode <=> last.ctx.qrcode \in TrueSpellings)
    /\ (last.op = "record" /\ last.writes = 1) =>
          /\ Len(StatsNow) = Len(StatsBefore) + 1
          /\ StatsNow[Len(StatsNow)].via_qrcode = last.entry.via_qrcode

\* the event of a link-ID request that carried qrcode in upper or mixed case
\* is stored as QR-originated
C16_Witness ==
    /\ last.op = "record"
    /\ last.route = "link"
    /\ last.writes = 1
    /\ last.entry.via_qrcode
    /\ StatsNow # <<>>
    /\ StatsNow[Len(StatsNow)].via_qrcode

----------------------------------------------------------------------------
(* Statistics *)

\* the latest step answered a per-link statistics request
PerLinkStats == last.op \in {"url_stats", "link_stats"} /\ last.status = 200

\* the click-event table the latest statistics request read
StatsTable == IF last.op \in {"link_stats", "link_dashboard"} THEN linkStats ELSE urlStats

\* the places in that table of the events the request is about: the events
\* of its link (of every link, for a dashboard) not older than its window
InWindow ==
    { i \in DOMAIN StatsTable :
        /\ StatsTable[i].created_at >= now - last.days * TicksPerDay
        /\ last.op \in {"dashboard", "link_dashboard"} \/ StatsTable[i].ref = last.id }

\* C17: in a per-link statistics response for a window of N days,
\* total_clicks is the number of the link's events with created_at >= now - N
\* days, qrcode_clicks the number of those with via_qrcode, direct_clicks the
\* difference; events of other links and older events are not counted.
C17_WindowedTotals ==
    PerLinkStats =>
        /\ last.data.total_clicks = Cardinality(InWindow)
        /\ last.data.qrcode_clicks =
              Cardinality({ i \in InWindow : StatsTable[i].via_qrcode })
        /\ last.data.direct_clicks = last.data.total_clicks - last.data.qrcode_clicks

\* a one-day window on a Url that has older events, while another Url has
\* events in the window: some of the link's events are counted, not all, and
\* both kinds of click occur
C17_Witness ==
    /\ last.op = "url_stats"
    /\ last.status = 200
    /\ last.id = 1
    /\ last.days = 1
    /\ last.data.qrcode_clicks > 0
    /\ last.data.direct_clicks > 0
    /\ last.data.total_clicks < Cardinality({ i \in DOMAIN urlStats : urlStats[i].ref = 1 })
    /\ \E i \in DOMAIN urlStats :
          urlStats[i].ref = 2 /\ urlStats[i].created_at >= now - TicksPerDay

\* C18 (as the specification states it): clicks_by_device of a per-link
\* statistics response has the four keys mobile, tablet, desktop and unknown,
\* each with the number of the link's events of that class in the window, 0
\* for a class without one.
C18_DeviceZeroFill ==
    PerLinkStats =>
        /\ DOMAIN last.data.clicks_by_device = DeviceClasses
        /\ \A d \in DOMAIN last.data.clicks_by_device :
              last.data.clicks_by_device[d] =
                  Cardinality({ i \in InWindow : StatsTable[i].device_type = d })

\* the countries of the events the latest statistics request is about
CountriesInWindow == { StatsTable[i].country : i \in InWindow } \ { None }

\* the number of those events from country c
CountryCount(c) == Cardinality({ i \in InWindow : StatsTable[i].country = c })

\* C19: clicks_by_country of a per-link statistics response has at most 10
\* rows, one country each and no country twice; the count of a row is the
\* number of the link's in-window events from its country; counts do not
\* increase along the list; a country that is left out has no more events
\* than the last row; events without a country make no row.
C19_TopCountries ==
    PerLinkStats =>
        LET rows == last.data.clicks_by_country IN
        /\ Len(rows) <= TopN
        /\ \A i \in DOMAIN rows :
              /\ rows[i].country \in CountriesInWindow
              /\ rows[i].count = CountryCount(rows[i].country)
        /\ \A i \in DOMAIN rows, j \in DOMAIN rows :
              i < j => /\ rows[i].count >= rows[j].count
                       /\ rows[i].country # rows[j].country
        /\ \A c \in CountriesInWindow \ { rows[i].country : i \in DOMAIN rows } :
              /\ Len(rows) = TopN
              /\ CountryCount(c) <= rows[Len(rows)].count

\* a link visited from more than ten countries, some more often than others,
\* and by visitors without a country: ten rows, and a country is left out
C19_Witness ==
    /\ PerLinkStats
    /\ Len(last.data.clicks_by_country) = TopN
    /\ Cardinality(CountriesInWindow) > TopN
    /\ last.data.clicks_by_country[1].count > last.data.clicks_by_country[TopN].count
    /\ \E i \in InWindow : StatsTable[i].country = None

\* the latest step answered a statistics or dashboard request
AnyStats ==
    /\ last.op \in {"url_stats", "link_stats", "dashboard", "link_dashboard"}
    /\ last.status = 200

\* the calendar days of the events the latest statistics request is about
DaysInWindow == { StatsTable[i].created_at \div TicksPerDay : i \in InWindow }

\* C20: clicks_by_day of a statistics or dashboard response has one row for
\* each calendar day with an in-window event and no other row; dates
\* strictly ascend along the list; the count of a row is the number of
\* in-window events of its day, so no count is 0.
C20_ClicksByDay ==
    AnyStats =>
        LET rows == last.data.clicks_by_day IN
        /\ { rows[i].date : i \in DOMAIN rows } = DaysInWindow
        /\ Len(rows) = Cardinality(DaysInWindow)
        /\ \A i \in DOMAIN rows, j \in DOMAIN rows : i < j => rows[i].date < rows[j].date
        /\ \A i \in DOMAIN rows :
              /\ rows[i].count =
                    Cardinality({ k \in InWindow :
                                    StatsTable[k].created_at \div TicksPerDay = rows[i].date })
              /\ rows[i].count > 0

\* a dashboard over a window that starts inside a day: rows for two days or
\* more, none for the day in between on which nothing in the window happened
\* or for the days before
C20_Witness ==
    /\ last.op = "dashboard"
    /\ Len(last.data.clicks_by_day) >= 2
    /\ last.data.clicks_by_day[1].count # last.data.clicks_by_day[2].count
    /\ \E i \in DOMAIN urlStats :
          urlStats[i].created_at \div TicksPerDay < last.data.clicks_by_day[1].date

\* the latest step answered a dashboard request of either variant
Dashboards == last.op \in {"dashboard", "link_dashboard"} /\ last.status = 200

\* C21: in a dashboard response of either variant the top list has at most
\* 10 rows, in non-increasing click_count order, and the click_count of a row
\* is the number of click events of its link that lie in the window: older
\* events are not counted and no event is counted more than once.
C21_TopListCounts ==
    Dashboards =>
        LET rows == last.data.top IN
        /\ Len(rows) <= TopN
        /\ \A i \in DOMAIN rows, j \in DOMAIN rows :
              i < j => rows[i].click_count >= rows[j].click_count
        /\ \A i \in DOMAIN rows :
              rows[i].click_count =
                  Cardinality({ k \in InWindow : StatsTable[k].ref = rows[i].id })

\* the events that a list of serialized events leaves out
LeftOut(rows) == DOMAIN StatsTable \ { rows[i].id : i \in DOMAIN rows }

\* C22: recent_clicks of a dashboard response holds min(10, number of stored
\* events) events of the store, each once; no event left out is later than
\* a listed one, whatever the window; the list is ordered latest first.
C22_RecentClicks ==
    Dashboards =>
        LET rows == last.data.recent_clicks IN
        /\ Len(rows) = (IF Len(StatsTable) < 10 THEN Len(StatsTable) ELSE 10)
        /\ \A i \in DOMAIN rows :
              /\ rows[i].id \in DOMAIN StatsTable
              /\ rows[i] = StatSerializer(StatsTable, rows[i].id)
        /\ \A i \in DOMAIN rows, j \in DOMAIN rows :
              i < j => /\ rows[i].id # rows[j].id
                       /\ rows[i].created_at >= rows[j].created_at
        /\ \A k \in LeftOut(rows), i \in DOMAIN rows :
              StatsTable[k].created_at <= rows[i].created_at

\* a dashboard over a window of no days, on a store of more than ten events,
\* the latest of which is not the last one stored: ten events are listed,
\* events are left out, some listed event is older than the window
C22_Witness ==
    /\ Dashboards
    /\ last.op = "dashboard"
    /\ Len(last.data.recent_clicks) = 10
    /\ LeftOut(last.data.recent_clicks) # {}
    /\ last.data.total_clicks < 10
    /\ last.data.recent_clicks[1].id # Len(urlStats)
    /\ \E i \in DOMAIN last.data.recent_clicks :
          last.data.recent_clicks[i].created_at < now - last.days * TicksPerDay

\* a decimal number with an optional sign
IsNumber(s) ==
    \/ IsDecimal(s)
    \/ Len(s) > 1 /\ s[1] \in {"-", "+"} /\ IsDecimal(Tail(s))

\* the latest step is a statistics request for an object that exists
StatsRequest ==
    /\ last.op \in {"url_stats", "link_stats", "dashboard", "link_dashboard"}
    /\ last.status # 404

\* C23: a statistics or dashboard request of either variant whose days
\* parameter is absent or is not a number is answered, without an error,
\* with the summary of the window of 30 days.
C23_DaysDefault ==
    (StatsRequest /\ (last.param = Absent \/ ~IsNumber(last.param))) =>
        /\ last.status = 200
        /\ last.days = DefaultDays
        /\ last.op \in {"url_stats", "link_stats"} =>
              \E order \in TieOrders :
                  last.data = StatsData(StatsInWindow(StatsTable, last.id,
                                                      now - DefaultDays * TicksPerDay),
                                        order)

\* a request without the parameter is answered for the window of 30 days
AbsentDaysMeansDefault ==
    (StatsRequest /\ last.param = Absent) =>
        /\ last.status = 200
        /\ last.days = DefaultDays

\* the latest step is a save of the serializer that went through
Saved == last.op = "save" /\ last.out.result = "saved"

\* C26: no create or update through UrlSerializer stores a short code that
\* is a reserved path, ignoring case, whether the code was supplied by the
\* caller or drawn by the allocation loop.
C26_NoReservedCodeStored ==
    Saved => Lower(last.cand) \notin ReservedPaths

\* a supplied short code goes to the store as it is, without a candidate drawn
SuppliedCodeStoredVerbatim ==
    /\ last.op = "attempt" => LacksShortCode(last.call.initial)
    /\ (Saved /\ ~LacksShortCode(last.call.initial)) =>
          /\ last.cand = last.call.initial
          /\ \E u \in urls : u.short_code = last.call.initial

\* C27: an update draws a new short code only when its request supplies a
\* blank short_code; an update whose request does not mention short_code
\* stores the short code the Url had; a create or update that supplies a
\* short code stores this code and draws none.
C27_UpdateKeepsShortCode ==
    /\ (last.op = "attempt" /\ last.call.op = "update") => last.call.initial = Blank
    /\ (Saved /\ last.call.op = "update" /\ last.call.initial = Absent) =>
          last.cand = last.call.instance.short_code
    /\ SuppliedCodeStoredVerbatim

\* two consecutive steps answer the same statistics request at the same
\* instant (no step of the statistics specification changes the store)
SameRequestAgain ==
    /\ last.op \in {"url_stats", "link_stats", "dashboard", "link_dashboard"}
    /\ last'.op = last.op
    /\ last'.id = last.id
    /\ last.status = 200
    /\ last'.status = 200
    /\ last'.days = last.days
    /\ now' = now

\* C24: aggregation is a function of the event set and the window: a
\* statistics or dashboard request repeated on the unchanged store with the
\* same window start gets the same data, the order of the rows of equal
\* count in clicks_by_country and in the top list included.
C24_AggregationDeterministic ==
    [][SameRequestAgain => last'.data = last.data]_vars

\* the same, up to the order of the rows of the lists
AsSet(seq) == { seq[i] : i \in DOMAIN seq }

SameRows(data, other) ==
    IF last.op \in {"url_stats", "link_stats"}
    THEN /\ [data EXCEPT !.clicks_by_country = <<>>] = [other EXCEPT !.clicks_by_country = <<>>]
         /\ Len(data.clicks_by_country) = Len(other.clicks_by_country)
         /\ \A i \in DOMAIN data.clicks_by_country :
               data.clicks_by_country[i].count = other.clicks_by_country[i].count
    ELSE /\ [data EXCEPT !.top = <<>>, !.recent_clicks = <<>>]
              = [other EXCEPT !.top = <<>>, !.recent_clicks = <<>>]
         /\ AsSet(data.top) = AsSet(other.top)
         /\ Len(data.recent_clicks) = Len(other.recent_clicks)
         /\ \A i \in DOMAIN data.recent_clicks :
               data.recent_clicks[i].created_at = other.recent_clicks[i].created_at

AggregationDeterministicButTies ==
    [][SameRequestAgain => SameRows(last.data, last'.data)]_vars

\* C25: a step of a redirect request, whatever its outcome, leaves every
\* stored link as it is and every stored click event as it is, in both
\* tables; all it may do to the store is append one click event.
C25_RedirectFrame ==
    [][ last'.op \in {"lookup", "record"} =>
            /\ urls' = urls
            /\ links' = links
            /\ IsPrefix(urlStats, urlStats')
            /\ IsPrefix(linkStats, linkStats')
            /\ Len(urlStats') + Len(linkStats') <= Len(urlStats) + Len(linkStats) + 1
      ]_vars

\* a redirect has added its event to a table that held a different event
C25_Witness ==
    /\ last.op = "record"
    /\ last.writes = 1
    /\ Len(StatsNow) >= 2
    /\ StatsNow[Len(StatsNow)] # StatsNow[1]
    /\ urls # {}

RECURSIVE SumOf(_, _)
\* the sum of f over the set S of arguments
SumOf(f, S) ==
    IF S = {} THEN 0
    ELSE LET x == CHOOSE y \in S : TRUE IN f[x] + SumOf(f, S \ {x})

\* C29: in a per-link statistics response (the store does not change during
\* a request of the statistics specification) the counts of clicks_by_device
\* sum to total_clicks, the counts of clicks_by_day sum to total_clicks, and
\* the counts of clicks_by_country sum to total_clicks at most.
C29_BreakdownsAgree ==
    PerLinkStats =>
        LET d == last.data IN
        /\ SumOf(d.clicks_by_device, DOMAIN d.clicks_by_device) = d.total_clicks
        /\ SumOf([i \in DOMAIN d.clicks_by_day |-> d.clicks_by_day[i].count],
                 DOMAIN d.clicks_by_day) = d.total_clicks
        /\ SumOf([i \in DOMAIN d.clicks_by_country |-> d.clicks_by_country[i].count],
                 DOMAIN d.clicks_by_country) <= d.total_clicks

\* a response with several devices and several days, whose countries sum to
\* less than the total: events without a country, and more than ten countries
C29_Witness ==
    /\ PerLinkStats
    /\ Cardinality(DOMAIN last.data.clicks_by_device) >= 2
    /\ Len(last.data.clicks_by_day) >= 2
    /\ Len(last.data.clicks_by_country) = TopN
    /\ Cardinality(CountriesInWindow) > TopN
    /\ \E i \in InWindow : StatsTable[i].country = None

\* C28: in every per-link statistics response, also when redirects write
\* click events of the link between the queries of the view, qrcode_clicks
\* is at most total_clicks and direct_clicks is not negative.
C28_CountsConsistentUnderWrites ==
    PerLinkStats =>
        /\ last.data.qrcode_clicks <= last.data.total_clicks
        /\ last.data.direct_clicks >= 0

\* the latest step is a LinkViewSet operation on one link
OnOneLink == last.op \in {"retrieve", "update", "destroy", "link_stats"}

\* the figures of the latest dashboard response are those of the links of
\* the user who asked, and of their click events
OwnFigures ==
    LET own       == { l \in links : l.user = last.user }
        ownIds    == { l.id : l \in own }
        ownEvents == { i \in DOMAIN linkStats : linkStats[i].ref \in ownIds }
        d         == last.data
    IN /\ d.total_links = Cardinality(own)
       /\ d.active_links = Cardinality({ l \in own : l.is_active })
       /\ d.total_clicks =
             Cardinality({ i \in ownEvents :
                             linkStats[i].created_at >= now - last.days * TicksPerDay })
       /\ \A i \in DOMAIN d.top : d.top[i].id \in ownIds
       /\ \A i \in DOMAIN d.recent_clicks : d.recent_clicks[i].id \in ownEvents

\* a LinkViewSet operation on a link of another user is answered not-found
\* and leaves the link and its click events as they are
ForeignLinkNotFound ==
    (OnOneLink' /\ \E l \in links : l.id = last'.id /\ l.user # last'.user) =>
        /\ last'.status = 404
        /\ \A l \in links : l.id = last'.id => l \in links'
        /\ StatsOf(linkStats', last'.id) = StatsOf(linkStats, last'.id)

ViewSetSeesOwnLinksOnly == [][ForeignLinkNotFound]_vars

\* C30: what a user sees in the link-ID variant depends on that user's own
\* links only: a LinkViewSet operation on a link of another user is answered
\* not-found and changes nothing, and the figures of the dashboard are those
\* of the user's own links and click events, so that they are the same in
\* two stores that differ only in what other users have stored.
C30_OwnLinksOnly ==
    [][ /\ ForeignLinkNotFound
        /\ (last'.op = "link_dashboard" /\ last'.status = 200) => OwnFigures'
      ]_vars

====
